---- MODULE Spec2Model ----
(***************************************************************************)
(* Task List Client of the ModelArk video generator (static/js/app.js).    *)
(*                                                                         *)
(* The client is a Vue application: its data() fields are the state, its   *)
(* methods and lifecycle hooks are the operations.  Every await on an      *)
(* axios call is a suspension point: the part of a handler before the      *)
(* await is one action (it puts a request in flight), the part after it is *)
(* another action (the continuation that runs when the response arrives).  *)
(* JavaScript is single threaded and runs each continuation, and every     *)
(* microtask it schedules, to completion, so each action is atomic.        *)
(*                                                                         *)
(* Strings that the code formats are sequences of one-character strings,   *)
(* so that template literals, join and trim are computed as the code       *)
(* computes them.                                                          *)
(***************************************************************************)
EXTENDS Integers, Sequences, FiniteSets, TLC

VARIABLES
    variant,            \* "rich": first createApp of the file, "simple": second
    phase,              \* "created", "mounted", "unmounted"
    tasks,              \* data().tasks: the local cache
    newTask,            \* data().newTask: the draft
    imageInputModes,    \* data().imageInputModes     (rich variant)
    imagePreviews,      \* data().imagePreviews       (rich variant)
    refImageInputModes, \* data().refImageInputModes  (rich variant)
    refImagePreviews,   \* data().refImagePreviews    (rich variant)
    showSettings,       \* data().showSettings
    apiKey,             \* data().apiKey
    apiKeyConfigured,   \* data().apiKeyConfigured
    polling,            \* data().polling: the handle setInterval returned, 0 is null
    isCreating,         \* data().isCreating
    intervals,          \* handles of the interval timers that are armed
    settingsTimeout,    \* the setTimeout of checkSettings is pending
    toasts,             \* the toasts the last step put on the page, in order
    dialog,             \* what confirm() returned in the last step, or "none"
    net,                \* requests in flight, in the order they were issued
    server,             \* Task Store: the task records, in creation order
    serverKey,          \* Task Store: an API key is stored
    nextId,             \* Task Store: id of the next task created
    paramString         \* value returned by the last buildParameterString call

vars == << variant, phase, tasks, newTask, imageInputModes, imagePreviews,
           refImageInputModes, refImagePreviews, showSettings, apiKey,
           apiKeyConfigured, polling, isCreating, intervals, settingsTimeout,
           toasts, dialog, net, server, serverKey, nextId, paramString >>

clientVars == << tasks, newTask, imageInputModes, imagePreviews,
                 refImageInputModes, refImagePreviews, showSettings, apiKey,
                 apiKeyConfigured, polling, isCreating >>

imageVars == << imageInputModes, imagePreviews, refImageInputModes,
                refImagePreviews >>

backendVars == << server, serverKey, nextId >>

(***************************************************************************)
(* Bounds of the model.                                                    *)
(***************************************************************************)
MaxTasks == 1       \* tasks the Task Store creates
MaxInFlight == 2    \* requests in flight at once

(***************************************************************************)
(* JavaScript values of the draft's parameters: null, a string, a number.  *)
(***************************************************************************)
Null == [t |-> "null", s |-> << >>, n |-> 0]
Str(s) == [t |-> "str", s |-> s, n |-> 0]
Num(n) == [t |-> "num", s |-> << >>, n |-> n]

\* ToBoolean: null, '' and 0 are falsy.
Truthy(v) ==
    CASE v.t = "null" -> FALSE
      [] v.t = "str" -> v.s # << >>
      [] v.t = "num" -> v.n # 0

Digit(d) == << "0", "1", "2", "3", "4", "5", "6", "7", "8", "9" >>[d + 1]

RECURSIVE NatToString(_)
NatToString(n) ==
    IF n < 10 THEN << Digit(n) >>
    ELSE NatToString(n \div 10) \o << Digit(n % 10) >>

\* Number.prototype.toString for integers.
NumToString(n) == IF n < 0 THEN << "-" >> \o NatToString(0 - n) ELSE NatToString(n)

\* ToString, as a template literal `${v}` applies it.
ToStringJS(v) ==
    CASE v.t = "null" -> << "n", "u", "l", "l" >>
      [] v.t = "str" -> v.s
      [] v.t = "num" -> NumToString(v.n)

\* Array.prototype.join
RECURSIVE Join(_, _)
Join(parts, sep) ==
    IF parts = << >> THEN << >>
    ELSE IF Len(parts) = 1 THEN parts[1]
    ELSE parts[1] \o sep \o Join(Tail(parts), sep)

WhiteSpace == { " ", "\n", "\t" }

\* String.prototype.trim
RECURSIVE TrimStart(_)
TrimStart(s) ==
    IF s # << >> /\ Head(s) \in WhiteSpace THEN TrimStart(Tail(s)) ELSE s

RECURSIVE TrimEnd(_)
TrimEnd(s) ==
    IF s # << >> /\ s[Len(s)] \in WhiteSpace
    THEN TrimEnd(SubSeq(s, 1, Len(s) - 1)) ELSE s

Trim(s) == TrimEnd(TrimStart(s))

(***************************************************************************)
(* buildParameterString                                                    *)
(***************************************************************************)
FlagRt == << "-", "-", "r", "t" >>
FlagDur == << "-", "-", "d", "u", "r" >>
FlagFps == << "-", "-", "f", "p", "s" >>
FlagRs == << "-", "-", "r", "s" >>
FlagSeed == << "-", "-", "s", "e", "e", "d" >>
FlagCf == << "-", "-", "c", "f" >>
Sp == << " " >>
StrTrue == << "t", "r", "u", "e" >>
StrFalse == << "f", "a", "l", "s", "e" >>
Fps24 == << "2", "4" >>

\* this.newTask.seed !== null && this.newTask.seed !== ''
SeedGivenNoZero(seed) == Truthy(seed)
SeedGiven(seed) == seed # Null /\ seed # Str(<< >>)

CfTokenAlwaysFalse(d) == FlagCf \o Sp \o StrFalse
CfToken(d) == FlagCf \o Sp \o (IF d.camera_fixed THEN StrTrue ELSE StrFalse)

buildParameterString(d) ==
    LET p1 == IF Truthy(d.ratio)
              THEN << FlagRt \o Sp \o ToStringJS(d.ratio) >> ELSE << >>
        p2 == IF Truthy(d.duration)
              THEN Append(p1, FlagDur \o Sp \o ToStringJS(d.duration)) ELSE p1
        p3 == Append(p2, FlagFps \o Sp \o Fps24)
        p4 == IF Truthy(d.resolution)
              THEN Append(p3, FlagRs \o Sp \o ToStringJS(d.resolution)) ELSE p3
        p5 == IF SeedGiven(d.seed)
              THEN Append(p4, FlagSeed \o Sp \o ToStringJS(d.seed)) ELSE p4
        p6 == Append(p5, CfToken(d))
    IN  Join(p6, Sp)

(***************************************************************************)
(* data(): the state of a freshly created application.                     *)
(***************************************************************************)
Ratio169 == << "1", "6", ":", "9" >>
Ratio916 == << "9", ":", "1", "6" >>
Res720p == << "7", "2", "0", "p" >>
Res1080p == << "1", "0", "8", "0", "p" >>

DataNewTask ==
    [ prompt |-> << >>,
      imageMode |-> "none",
      images |-> << Null, Null >>,
      referenceImages |-> << [url |-> Null] >>,
      ratio |-> Str(Ratio169),
      duration |-> Num(5),
      resolution |-> Str(Res720p),
      seed |-> Null,
      camera_fixed |-> FALSE ]

DataImageInputModes == << "url", "url" >>
DataImagePreviews == << Null, Null >>
DataRefImageInputModes == << "url" >>
DataRefImagePreviews == << Null >>

Data ==
    /\ tasks = << >>
    /\ newTask = DataNewTask
    /\ imageInputModes = DataImageInputModes
    /\ imagePreviews = DataImagePreviews
    /\ refImageInputModes = DataRefImageInputModes
    /\ refImagePreviews = DataRefImagePreviews
    /\ showSettings = FALSE
    /\ apiKey = << >>
    /\ apiKeyConfigured = FALSE
    /\ polling = 0
    /\ isCreating = FALSE

(***************************************************************************)
(* Toasts: showError and showSuccess append a node to document.body and    *)
(* arm a timeout that removes it 5 s or 3 s later.  The model keeps the    *)
(* toasts that the last step showed: a step that shows none leaves << >>.  *)
(***************************************************************************)
ErrorToast(msg) == [kind |-> "error", msg |-> msg]
SuccessToast(msg) == [kind |-> "success", msg |-> msg]

showError(ts, msg) == Append(ts, ErrorToast(msg))
showSuccess(ts, msg) == Append(ts, SuccessToast(msg))

Remove(seq, i) == SubSeq(seq, 1, i - 1) \o SubSeq(seq, i + 1, Len(seq))

(***************************************************************************)
(* Requests in flight.  A request is "sent" until the Task Store has       *)
(* served it; its response then travels back as "served" with data.        *)
(***************************************************************************)
GetTasks == "GET /api/tasks"
PostTasks == "POST /api/tasks"
DeleteTasks == "DELETE /api/tasks/{id}"
GetSettings == "GET /api/settings"
PostSettings == "POST /api/settings"

NoBody ==
    [ prompt |-> << >>, imageMode |-> "undefined", hasImages |-> FALSE,
      images |-> << >>, api_key |-> << >>, id |-> 0 ]
NoData == [ hasTasks |-> FALSE, tasks |-> << >>, api_key_configured |-> FALSE ]

Request(op, origin, body) ==
    [ op |-> op, origin |-> origin, body |-> body, st |-> "sent", data |-> NoData ]

Count(seq, op) == Cardinality({ i \in 1..Len(seq) : seq[i].op = op })

(***************************************************************************)
(* Lifecycle: mounted, the poll timer, beforeUnmount.                      *)
(***************************************************************************)
IntervalHandle == 1     \* setInterval returns a handle greater than zero

mounted ==
    /\ phase = "created"
    /\ Len(net) + 2 <= MaxInFlight
    /\ phase' = "mounted"
    /\ net' = net \o << Request(GetSettings, "checkSettings", NoBody),
                        Request(GetTasks, "mounted", NoBody) >>
    /\ polling' = IntervalHandle
    /\ intervals' = intervals \union { IntervalHandle }
    /\ toasts' = << >>
    /\ dialog' = "none"
    /\ UNCHANGED << variant, tasks, newTask, imageVars, showSettings, apiKey,
                    apiKeyConfigured, isCreating, settingsTimeout, backendVars,
                    paramString >>

\* the setInterval callback
pollTick ==
    /\ polling \in intervals
    /\ Len(net) < MaxInFlight
    /\ net' = Append(net, Request(GetTasks, "poll", NoBody))
    /\ toasts' = << >>
    /\ dialog' = "none"
    /\ UNCHANGED << variant, phase, clientVars, intervals, settingsTimeout,
                    backendVars, paramString >>

IntervalsKept(h, timers) == timers
IntervalsAfterUnmount(h, timers) == IF h # 0 THEN timers \ { h } ELSE timers

beforeUnmount ==
    /\ phase = "mounted"
    /\ phase' = "unmounted"
    /\ intervals' = IntervalsAfterUnmount(polling, intervals)
    /\ toasts' = << >>
    /\ dialog' = "none"
    /\ UNCHANGED << variant, clientVars, settingsTimeout, net, backendVars,
                    paramString >>

(***************************************************************************)
(* loadTasks and its callers' continuations.                               *)
(***************************************************************************)
\* this.tasks = response.data.tasks || []
TasksMergedOnLoadSuccess(cache, data) ==
    cache \o SelectSeq(data.tasks,
                       LAMBDA t : \A k \in 1..Len(cache) : cache[k].id # t.id)
TasksOnLoadSuccess(cache, data) == IF data.hasTasks THEN data.tasks ELSE << >>

\* the catch block assigns nothing and leaves the poll timer alone
TasksClearedOnLoadFailure(cache) == << >>
TasksOnLoadFailure(cache) == cache

IntervalsClearedOnLoadFailure(timers) == { }
IntervalsOnLoadFailure(timers) == timers

\* what the caller of loadTasks does once loadTasks has settled
ToastsAfterLoad(ts, origin) ==
    CASE origin = "refreshTasks" -> showSuccess(ts, "refreshed")
      [] origin = "createTask" -> showSuccess(ts, "task_created")
      [] origin = "deleteTask" -> showSuccess(ts, "task_deleted")
      [] OTHER -> ts

loadTasksResolved(i) ==
    /\ i \in 1..Len(net)
    /\ net[i].op = GetTasks
    /\ net[i].st = "served"
    /\ tasks' = TasksOnLoadSuccess(tasks, net[i].data)
    /\ toasts' = ToastsAfterLoad(<< >>, net[i].origin)
    /\ dialog' = "none"
    /\ isCreating' = IF net[i].origin = "createTask" THEN FALSE ELSE isCreating
    /\ net' = Remove(net, i)
    /\ UNCHANGED << variant, phase, newTask, imageVars, showSettings, apiKey,
                    apiKeyConfigured, polling, intervals, settingsTimeout,
                    backendVars, paramString >>

loadTasksRejected(i) ==
    /\ i \in 1..Len(net)
    /\ net[i].op = GetTasks
    /\ tasks' = TasksOnLoadFailure(tasks)
    /\ intervals' = IntervalsOnLoadFailure(intervals)
    /\ toasts' = ToastsAfterLoad(showError(<< >>, "load_failed"), net[i].origin)
    /\ dialog' = "none"
    /\ isCreating' = IF net[i].origin = "createTask" THEN FALSE ELSE isCreating
    /\ net' = Remove(net, i)
    /\ UNCHANGED << variant, phase, newTask, imageVars, showSettings, apiKey,
                    apiKeyConfigured, polling, settingsTimeout,
                    backendVars, paramString >>

refreshTasks ==
    /\ phase = "mounted"
    /\ Len(net) < MaxInFlight
    /\ net' = Append(net, Request(GetTasks, "refreshTasks", NoBody))
    /\ toasts' = << >>
    /\ dialog' = "none"
    /\ UNCHANGED << variant, phase, clientVars, intervals, settingsTimeout,
                    backendVars, paramString >>

(***************************************************************************)
(* createTask                                                              *)
(***************************************************************************)
\* !this.newTask.prompt.trim()
PromptMissingUntrimmed(prompt) == prompt = << >>
PromptMissing(prompt) == Trim(prompt) = << >>

\* the images of the request, by imageMode (rich variant)
RequestImagesAnyMode(d) ==
    (IF Truthy(d.images[1])
     THEN << [url |-> d.images[1], role |-> "first_frame"] >> ELSE << >>)
    \o
    (IF Truthy(d.images[2])
     THEN << [url |-> d.images[2], role |-> "last_frame"] >> ELSE << >>)
RequestImages(d) ==
    CASE d.imageMode = "first_frame" ->
           IF Truthy(d.images[1])
           THEN << [url |-> d.images[1], role |-> "first_frame"] >> ELSE << >>
      [] d.imageMode = "first_last_frame" ->
           (IF Truthy(d.images[1])
            THEN << [url |-> d.images[1], role |-> "first_frame"] >> ELSE << >>)
           \o
           (IF Truthy(d.images[2])
            THEN << [url |-> d.images[2], role |-> "last_frame"] >> ELSE << >>)
      [] d.imageMode = "reference" ->
           LET kept == SelectSeq(d.referenceImages, LAMBDA img : Truthy(img.url))
           IN  [ k \in 1..Len(kept) |->
                   [url |-> kept[k].url, role |-> "reference_image"] ]
      [] OTHER -> << >>

\* const fullPrompt = `${this.newTask.prompt.trim()} ${paramString}`
fullPromptUntrimmed(d) == d.prompt \o Sp \o buildParameterString(d)
fullPrompt(d) == Trim(d.prompt) \o Sp \o buildParameterString(d)

\* the body of POST /api/tasks
RequestData(v, d) ==
    IF v = "rich"
    THEN [ NoBody EXCEPT !.prompt = fullPrompt(d),
                         !.imageMode = d.imageMode,
                         !.hasImages = RequestImages(d) # << >>,
                         !.images = RequestImages(d) ]
    ELSE [ NoBody EXCEPT !.prompt = fullPrompt(d) ]

createTaskNoPrompt ==
    /\ PromptMissing(newTask.prompt)
    /\ toasts' = showError(<< >>, "prompt_required")
    /\ dialog' = "none"
    /\ UNCHANGED << clientVars, net >>

SettingsShownOnMissingKey(shown) == shown
SettingsOnMissingKey(shown) == TRUE

createTaskNoApiKey ==
    /\ ~PromptMissing(newTask.prompt)
    /\ ~apiKeyConfigured
    /\ toasts' = showError(<< >>, "api_key_required")
    /\ dialog' = "none"
    /\ showSettings' = SettingsOnMissingKey(showSettings)
    /\ UNCHANGED << tasks, newTask, imageVars, apiKey, apiKeyConfigured, polling,
                    isCreating, net >>

createTaskSubmit ==
    /\ ~PromptMissing(newTask.prompt)
    /\ apiKeyConfigured
    /\ Len(net) < MaxInFlight
    /\ isCreating' = TRUE
    /\ net' = Append(net, Request(PostTasks, "createTask", RequestData(variant, newTask)))
    /\ toasts' = << >>
    /\ dialog' = "none"
    /\ UNCHANGED << tasks, newTask, imageVars, showSettings, apiKey,
                    apiKeyConfigured, polling >>

createTask ==
    /\ phase = "mounted"
    /\ \/ createTaskNoPrompt
       \/ createTaskNoApiKey
       \/ createTaskSubmit
    /\ UNCHANGED << variant, phase, intervals, settingsTimeout, backendVars,
                    paramString >>

\* await this.loadTasks() after the awaited mutating request: the requests in
\* flight once the answered one is gone and the refresh is issued
NoRefreshAfter(pending, origin) == pending
RefreshAfter(pending, origin) ==
    Append(pending, Request(GetTasks, origin, NoBody))

\* the form after a successful POST
FormKeptAfterCreate(d) == [ d EXCEPT !.prompt = << >> ]
FormAfterCreate(d) ==
    [ d EXCEPT !.prompt = << >>,
               !.imageMode = "none",
               !.images = << Null, Null >>,
               !.referenceImages = << [url |-> Null] >>,
               !.ratio = Str(Ratio169),
               !.duration = Num(5),
               !.resolution = Str(Res720p),
               !.seed = Null,
               !.camera_fixed = FALSE ]

\* POST /api/tasks resolved: reset the form, then call loadTasks
createTaskPosted(i) ==
    /\ i \in 1..Len(net)
    /\ net[i].op = PostTasks
    /\ net[i].st = "served"
    /\ newTask' = FormAfterCreate(newTask)
    /\ imageInputModes' = DataImageInputModes
    /\ imagePreviews' = DataImagePreviews
    /\ refImageInputModes' = DataRefImageInputModes
    /\ refImagePreviews' = DataRefImagePreviews
    /\ net' = RefreshAfter(Remove(net, i), "createTask")
    /\ toasts' = << >>
    /\ dialog' = "none"
    /\ UNCHANGED << variant, phase, tasks, showSettings, apiKey,
                    apiKeyConfigured, polling, isCreating, intervals,
                    settingsTimeout, backendVars, paramString >>

\* the form after a rejected POST: the catch block does not touch it
FormResetAfterCreateFailure(d) == FormAfterCreate(d)
FormAfterCreateFailure(d) == d

\* POST /api/tasks rejected: catch, finally
createTaskFailed(i) ==
    /\ i \in 1..Len(net)
    /\ net[i].op = PostTasks
    /\ newTask' = FormAfterCreateFailure(newTask)
    /\ toasts' = showError(<< >>, "create_failed")
    /\ dialog' = "none"
    /\ isCreating' = FALSE
    /\ net' = Remove(net, i)
    /\ UNCHANGED << variant, phase, tasks, imageVars, showSettings, apiKey,
                    apiKeyConfigured, polling, intervals, settingsTimeout,
                    backendVars, paramString >>

(***************************************************************************)
(* deleteTask                                                              *)
(***************************************************************************)
\* confirm(...) returned true
DeleteUnconfirmed(confirmed) == TRUE
DeleteConfirmed(confirmed) == confirmed

deleteTask(taskId, confirmed) ==
    /\ phase = "mounted"
    /\ IF DeleteConfirmed(confirmed)
       THEN /\ Len(net) < MaxInFlight
            /\ net' = Append(net, Request(DeleteTasks, "deleteTask",
                                          [ NoBody EXCEPT !.id = taskId ]))
       ELSE net' = net
    /\ toasts' = << >>
    /\ dialog' = IF confirmed THEN "yes" ELSE "no"
    /\ UNCHANGED << variant, phase, clientVars, intervals, settingsTimeout,
                    backendVars, paramString >>

deleteTaskDeleted(i) ==
    /\ i \in 1..Len(net)
    /\ net[i].op = DeleteTasks
    /\ net[i].st = "served"
    /\ net' = RefreshAfter(Remove(net, i), "deleteTask")
    /\ toasts' = << >>
    /\ dialog' = "none"
    /\ UNCHANGED << variant, phase, clientVars, intervals, settingsTimeout,
                    backendVars, paramString >>

deleteTaskFailed(i) ==
    /\ i \in 1..Len(net)
    /\ net[i].op = DeleteTasks
    /\ toasts' = showError(<< >>, "delete_failed")
    /\ dialog' = "none"
    /\ net' = Remove(net, i)
    /\ UNCHANGED << variant, phase, clientVars, intervals, settingsTimeout,
                    backendVars, paramString >>

(***************************************************************************)
(* checkSettings and saveSettings                                          *)
(***************************************************************************)
\* this.apiKeyConfigured = response.data.api_key_configured || false, and the
\* setTimeout that opens the settings panel when no key is configured
checkSettingsResolved(i) ==
    /\ i \in 1..Len(net)
    /\ net[i].op = GetSettings
    /\ net[i].st = "served"
    /\ apiKeyConfigured' = net[i].data.api_key_configured
    /\ settingsTimeout' = IF net[i].data.api_key_configured
                          THEN settingsTimeout ELSE TRUE
    /\ net' = Remove(net, i)
    /\ toasts' = << >>
    /\ dialog' = "none"
    /\ UNCHANGED << variant, phase, tasks, newTask, imageVars, showSettings,
                    apiKey, polling, isCreating, intervals, backendVars,
                    paramString >>

\* the catch block only logs to the console
checkSettingsRejected(i) ==
    /\ i \in 1..Len(net)
    /\ net[i].op = GetSettings
    /\ net' = Remove(net, i)
    /\ toasts' = << >>
    /\ dialog' = "none"
    /\ UNCHANGED << variant, phase, clientVars, intervals, settingsTimeout,
                    backendVars, paramString >>

\* setTimeout(() => { this.showSettings = true }, 1000)
openSettingsTimeout ==
    /\ settingsTimeout
    /\ settingsTimeout' = FALSE
    /\ showSettings' = TRUE
    /\ toasts' = << >>
    /\ dialog' = "none"
    /\ UNCHANGED << variant, phase, tasks, newTask, imageVars, apiKey,
                    apiKeyConfigured, polling, isCreating, intervals, net,
                    backendVars, paramString >>

\* !this.apiKey.trim()
ApiKeyMissingUntrimmed(key) == key = << >>
ApiKeyMissing(key) == Trim(key) = << >>

saveSettings ==
    /\ phase = "mounted"
    /\ IF ApiKeyMissing(apiKey)
       THEN /\ toasts' = showError(<< >>, "api_key_input_required")
            /\ dialog' = "none"
            /\ net' = net
       ELSE /\ Len(net) < MaxInFlight
            /\ net' = Append(net, Request(PostSettings, "saveSettings",
                                          [ NoBody EXCEPT !.api_key = apiKey ]))
            /\ toasts' = << >>
            /\ dialog' = "none"
    /\ UNCHANGED << variant, phase, clientVars, intervals, settingsTimeout,
                    backendVars, paramString >>

\* POST /api/settings resolved and the user declines the reload
\* this.apiKey = '' after the POST resolved
ApiKeyKeptAfterSave(key) == key
ApiKeyAfterSave(key) == << >>

saveSettingsSaved(i) ==
    /\ i \in 1..Len(net)
    /\ net[i].op = PostSettings
    /\ net[i].st = "served"
    /\ showSettings' = FALSE
    /\ apiKey' = ApiKeyAfterSave(apiKey)
    /\ apiKeyConfigured' = TRUE
    /\ toasts' = showSuccess(<< >>, "settings_saved")
    /\ dialog' = "no"
    /\ net' = Remove(net, i)
    /\ UNCHANGED << variant, phase, tasks, newTask, imageVars, polling, isCreating,
                    intervals, settingsTimeout, backendVars, paramString >>

\* POST /api/settings resolved and the user accepts: window.location.reload()
\* discards the page, its timers and its pending continuations
saveSettingsReload(i) ==
    /\ i \in 1..Len(net)
    /\ net[i].op = PostSettings
    /\ net[i].st = "served"
    /\ tasks' = << >>
    /\ newTask' = DataNewTask
    /\ imageInputModes' = DataImageInputModes
    /\ imagePreviews' = DataImagePreviews
    /\ refImageInputModes' = DataRefImageInputModes
    /\ refImagePreviews' = DataRefImagePreviews
    /\ showSettings' = FALSE
    /\ apiKey' = << >>
    /\ apiKeyConfigured' = FALSE
    /\ polling' = 0
    /\ isCreating' = FALSE
    /\ phase' = "created"
    /\ intervals' = { }
    /\ settingsTimeout' = FALSE
    /\ toasts' = << >>
    /\ dialog' = "yes"
    /\ net' = << >>
    /\ UNCHANGED << variant, backendVars, paramString >>

saveSettingsFailed(i) ==
    /\ i \in 1..Len(net)
    /\ net[i].op = PostSettings
    /\ toasts' = showError(<< >>, "save_failed")
    /\ dialog' = "none"
    /\ net' = Remove(net, i)
    /\ UNCHANGED << variant, phase, clientVars, intervals, settingsTimeout,
                    backendVars, paramString >>

(***************************************************************************)
(* The user fills in the form fields bound to newTask and apiKey.          *)
(***************************************************************************)
PromptBlank == << " " >>
PromptCat == << " ", "c", "a", "t" >>
KeyBlank == << " " >>
KeySecret == << "s", "k" >>

DraftBlank == [ DataNewTask EXCEPT !.prompt = PromptBlank ]
DraftPortrait ==
    [ DataNewTask EXCEPT !.prompt = PromptCat,
                         !.ratio = Str(Ratio916),
                         !.duration = Num(3),
                         !.resolution = Str(Res1080p),
                         !.seed = Num(0),
                         !.camera_fixed = TRUE ]

DraftInputs == { DraftBlank, DraftPortrait }
ApiKeyInputs == { << >>, KeyBlank, KeySecret }

editNewTask(d) ==
    /\ phase = "mounted"
    /\ newTask # d
    /\ newTask' = d
    /\ toasts' = << >>
    /\ dialog' = "none"
    /\ UNCHANGED << variant, phase, tasks, imageVars, showSettings, apiKey,
                    apiKeyConfigured, polling, isCreating, intervals,
                    settingsTimeout, net, backendVars, paramString >>

editApiKey(k) ==
    /\ phase = "mounted"
    /\ apiKey # k
    /\ apiKey' = k
    /\ toasts' = << >>
    /\ dialog' = "none"
    /\ UNCHANGED << variant, phase, tasks, newTask, imageVars, showSettings,
                    apiKeyConfigured, polling, isCreating, intervals,
                    settingsTimeout, net, backendVars, paramString >>

(***************************************************************************)
(* The Task Store: serves the requests and advances the tasks.             *)
(***************************************************************************)
TaskIds == 1..MaxTasks

NextStatus(status) ==
    CASE status = "pending" -> { "processing" }
      [] status = "processing" -> { "completed", "failed", "cancelled" }
      [] OTHER -> { }

Served(r, data) == [ r EXCEPT !.st = "served", !.data = data ]

serveGetTasks(i) ==
    /\ net[i].op = GetTasks
    /\ \E has \in BOOLEAN :
         net' = [ net EXCEPT ![i] =
                    Served(@, [ NoData EXCEPT !.hasTasks = has,
                                              !.tasks = IF has THEN server ELSE << >> ]) ]
    /\ UNCHANGED backendVars

servePostTasks(i) ==
    /\ net[i].op = PostTasks
    /\ nextId <= MaxTasks
    /\ server' = Append(server, [id |-> nextId, status |-> "pending"])
    /\ nextId' = nextId + 1
    /\ net' = [ net EXCEPT ![i] = Served(@, NoData) ]
    /\ UNCHANGED serverKey

serveDeleteTasks(i) ==
    /\ net[i].op = DeleteTasks
    /\ server' = SelectSeq(server, LAMBDA t : t.id # net[i].body.id)
    /\ net' = [ net EXCEPT ![i] = Served(@, NoData) ]
    /\ UNCHANGED << serverKey, nextId >>

serveGetSettings(i) ==
    /\ net[i].op = GetSettings
    /\ net' = [ net EXCEPT ![i] =
                  Served(@, [ NoData EXCEPT !.api_key_configured = serverKey ]) ]
    /\ UNCHANGED backendVars

servePostSettings(i) ==
    /\ net[i].op = PostSettings
    /\ serverKey' = TRUE
    /\ net' = [ net EXCEPT ![i] = Served(@, NoData) ]
    /\ UNCHANGED << server, nextId >>

serve(i) ==
    /\ i \in 1..Len(net)
    /\ net[i].st = "sent"
    /\ \/ serveGetTasks(i)
       \/ servePostTasks(i)
       \/ serveDeleteTasks(i)
       \/ serveGetSettings(i)
       \/ servePostSettings(i)
    /\ toasts' = << >>
    /\ dialog' = "none"
    /\ UNCHANGED << variant, phase, clientVars, intervals, settingsTimeout,
                    paramString >>

advanceTask(k) ==
    /\ k \in 1..Len(server)
    /\ \E st \in NextStatus(server[k].status) :
         server' = [ server EXCEPT ![k].status = st ]
    /\ toasts' = << >>
    /\ dialog' = "none"
    /\ UNCHANGED << variant, phase, clientVars, intervals, settingsTimeout,
                    net, serverKey, nextId, paramString >>

(***************************************************************************)
(* The specification of the client and the Task Store.                     *)
(***************************************************************************)
NoResult == << >>

InitWith(key) ==
    /\ variant \in { "rich", "simple" }
    /\ phase = "created"
    /\ Data
    /\ intervals = { }
    /\ settingsTimeout = FALSE
    /\ toasts = << >>
    /\ dialog = "none"
    /\ net = << >>
    /\ server = << >>
    /\ serverKey = key
    /\ nextId = 1
    /\ paramString = NoResult

Slots == 1..MaxInFlight

\* the page's lifecycle and the task list: every specification has these
NextLoad ==
    \/ mounted
    \/ pollTick
    \/ beforeUnmount
    \/ \E i \in Slots : loadTasksResolved(i)
    \/ \E i \in Slots : loadTasksRejected(i)
    \/ \E i \in Slots : checkSettingsResolved(i)
    \/ \E i \in Slots : checkSettingsRejected(i)
    \/ \E i \in Slots : serve(i)

NextCreate ==
    \/ createTask
    \/ \E i \in Slots : createTaskPosted(i)
    \/ \E i \in Slots : createTaskFailed(i)
    \/ \E d \in DraftInputs : editNewTask(d)

NextTaskList ==
    \/ refreshTasks
    \/ \E taskId \in TaskIds, confirmed \in BOOLEAN : deleteTask(taskId, confirmed)
    \/ \E i \in Slots : deleteTaskDeleted(i)
    \/ \E i \in Slots : deleteTaskFailed(i)

NextProgress ==
    \E k \in TaskIds : advanceTask(k)

NextSettings ==
    \/ openSettingsTimeout
    \/ saveSettings
    \/ \E i \in Slots : saveSettingsSaved(i)
    \/ \E i \in Slots : saveSettingsReload(i)
    \/ \E i \in Slots : saveSettingsFailed(i)
    \/ \E k \in ApiKeyInputs : editApiKey(k)

(***************************************************************************)
(* SpecTasks: a Task Store that starts with an API key in its              *)
(* configuration; the user works with the task list and the form.  The     *)
(* tasks stay pending: the status of a task plays no role here.            *)
(***************************************************************************)
InitTasks == InitWith(TRUE)
NextTasks == NextLoad \/ NextCreate \/ NextTaskList
SpecTasks == InitTasks /\ [][NextTasks]_vars

(***************************************************************************)
(* SpecSettings: a Task Store that starts without an API key; the user     *)
(* works with the settings panel and the form.                             *)
(***************************************************************************)
InitSettings == InitWith(FALSE)
NextSettingsPanel == NextLoad \/ NextCreate \/ NextSettings
SpecSettings == InitSettings /\ [][NextSettingsPanel]_vars

(***************************************************************************)
(* SpecStatus: the Task Store advances the tasks while the client polls.   *)
(***************************************************************************)
NextStatusView == NextLoad \/ NextCreate \/ refreshTasks \/ NextProgress
SpecStatus == InitTasks /\ [][NextStatusView]_vars

(***************************************************************************)
(* Spec: everything at once.                                               *)
(***************************************************************************)
Init == InitWith(FALSE) \/ InitWith(TRUE)
Next == NextLoad \/ NextCreate \/ NextTaskList \/ NextProgress \/ NextSettings
Spec == Init /\ [][Next]_vars

(***************************************************************************)
(* SpecParams: buildParameterString applied to every draft of ParamDrafts. *)
(***************************************************************************)
RatioInputs == { Null, Str(<< >>), Str(Ratio169), Str(Ratio916) }
DurationInputs == { Null, Num(0), Num(3), Num(5), Num(10) }
ResolutionInputs == { Str(<< >>), Str(Res720p), Str(Res1080p) }
SeedInputs == { Null, Str(<< >>), Num(0), Num(42), Num(0 - 1) }

ParamDrafts ==
    { [ DataNewTask EXCEPT !.ratio = r, !.duration = du, !.resolution = rs,
                           !.seed = sd, !.camera_fixed = cf ] :
        r \in RatioInputs, du \in DurationInputs, rs \in ResolutionInputs,
        sd \in SeedInputs, cf \in BOOLEAN }

InitParams ==
    /\ variant \in { "rich", "simple" }
    /\ phase = "mounted"
    /\ tasks = << >>
    /\ newTask \in ParamDrafts
    /\ imageInputModes = DataImageInputModes
    /\ imagePreviews = DataImagePreviews
    /\ refImageInputModes = DataRefImageInputModes
    /\ refImagePreviews = DataRefImagePreviews
    /\ showSettings = FALSE
    /\ apiKey = << >>
    /\ apiKeyConfigured = TRUE
    /\ polling = IntervalHandle
    /\ isCreating = FALSE
    /\ intervals = { IntervalHandle }
    /\ settingsTimeout = FALSE
    /\ toasts = << >>
    /\ dialog = "none"
    /\ net = << >>
    /\ server = << >>
    /\ serverKey = TRUE
    /\ nextId = 1
    /\ paramString = NoResult

callBuildParameterString ==
    /\ paramString = NoResult
    /\ paramString' = buildParameterString(newTask)
    /\ UNCHANGED << variant, phase, clientVars, intervals, settingsTimeout,
                    toasts, dialog, net, backendVars >>

NextParams == callBuildParameterString
SpecParams == InitParams /\ [][NextParams]_vars

(***************************************************************************)
(* Reading a parameter string back: its words, split at every space.       *)
(***************************************************************************)
RECURSIVE Words(_)
Words(s) ==
    IF \A k \in 1..Len(s) : s[k] # " " THEN << s >>
    ELSE LET k == CHOOSE k \in 1..Len(s) :
                    s[k] = " " /\ \A j \in 1..(k - 1) : s[j] # " "
         IN  << SubSeq(s, 1, k - 1) >> \o Words(SubSeq(s, k + 1, Len(s)))

IsFlag(w) == Len(w) >= 2 /\ w[1] = "-" /\ w[2] = "-"
FlagOrder == << FlagRt, FlagDur, FlagFps, FlagRs, FlagSeed, FlagCf >>
Rank(w) == CHOOSE r \in 1..Len(FlagOrder) : FlagOrder[r] = w
Positions(ws, w) == { k \in 1..Len(ws) : ws[k] = w }
ValueAfter(ws, w) == ws[(CHOOSE k \in Positions(ws, w) : TRUE) + 1]

ExampleDraft ==
    [ DataNewTask EXCEPT !.ratio = Str(Ratio916), !.duration = Num(3),
                         !.resolution = Str(Res1080p), !.seed = Null,
                         !.camera_fixed = TRUE ]
ExampleString ==
    FlagRt \o Sp \o Ratio916 \o Sp \o FlagDur \o Sp \o << "3" >> \o Sp \o
    FlagFps \o Sp \o Fps24 \o Sp \o FlagRs \o Sp \o Res1080p \o Sp \o
    FlagCf \o Sp \o StrTrue

\* C3: every parameter string has exactly one "--fps 24" and exactly one
\* "--cf <camera_fixed>", its words are separated by single spaces, its flags
\* come in the order --rt, --dur, --fps, --rs, --seed, --cf, each followed by
\* its value, and the example draft yields the example string.
C3_FlagsFixedOrder ==
    paramString # NoResult =>
        LET ws == Words(paramString)
            flags == { k \in 1..Len(ws) : IsFlag(ws[k]) }
        IN  /\ \A k \in 1..Len(ws) : ws[k] # << >>
            /\ \A k \in flags : \E r \in 1..Len(FlagOrder) : FlagOrder[r] = ws[k]
            /\ \A k, m \in flags : k < m => Rank(ws[k]) < Rank(ws[m])
            /\ \A k \in 1..Len(ws) : (k \in flags) <=> (k % 2 = 1)
            /\ Len(ws) % 2 = 0
            /\ Cardinality(Positions(ws, FlagFps)) = 1
            /\ ValueAfter(ws, FlagFps) = Fps24
            /\ Cardinality(Positions(ws, FlagCf)) = 1
            /\ ValueAfter(ws, FlagCf) = (IF newTask.camera_fixed THEN StrTrue ELSE StrFalse)
            /\ newTask = ExampleDraft => paramString = ExampleString

C3_Witness ==
    /\ paramString # NoResult
    /\ newTask.camera_fixed
    /\ newTask.seed = Num(42)
    /\ ~Truthy(newTask.ratio)
    /\ Truthy(newTask.duration)

\* C4: the parameter string has a --seed flag exactly when the seed is neither
\* null nor ''; the flag is followed by the seed, and seed 0 gives "--seed 0".
C4_SeedIffGiven ==
    paramString # NoResult =>
        LET ws == Words(paramString)
            unset == newTask.seed.t = "null"
                     \/ (newTask.seed.t = "str" /\ newTask.seed.s = << >>)
        IN  /\ (Positions(ws, FlagSeed) # { }) <=> ~unset
            /\ ~unset => ValueAfter(ws, FlagSeed) = ToStringJS(newTask.seed)
            /\ newTask.seed = Num(0) => ValueAfter(ws, FlagSeed) = << "0" >>

C4_Witness ==
    /\ paramString # NoResult
    /\ newTask.seed = Num(0)
    /\ Positions(Words(paramString), FlagSeed) # { }

(***************************************************************************)
(* Properties of the handlers.                                             *)
(***************************************************************************)
\* a text that is empty or has white space only
BlankText(s) == \A k \in 1..Len(s) : s[k] \in WhiteSpace

Issued(op, origin) == { i \in 1..Len(net) : net[i].op = op /\ net[i].origin = origin }

\* C1: createTask on a draft whose prompt is empty or white space issues no
\* request, shows the validation message and changes neither the draft, the
\* cache, showSettings nor isCreating, with or without an API key.
C1_BlankPromptBlocked ==
    [][ (createTask /\ BlankText(newTask.prompt)) =>
          /\ net' = net
          /\ toasts' = << ErrorToast("prompt_required") >>
          /\ newTask' = newTask
          /\ tasks' = tasks
          /\ showSettings' = showSettings
          /\ isCreating' = isCreating ]_vars

C1_Witness ==
    /\ toasts = << ErrorToast("prompt_required") >>
    /\ newTask.prompt = PromptBlank
    /\ apiKeyConfigured

\* C2: createTask with a prompt and without a configured API key issues no
\* request, shows a message, opens the settings panel and changes neither the
\* draft nor isCreating.
C2_MissingKeyOpensSettings ==
    [][ (createTask /\ ~BlankText(newTask.prompt) /\ ~apiKeyConfigured) =>
          /\ net' = net
          /\ toasts' = << ErrorToast("api_key_required") >>
          /\ showSettings' = TRUE
          /\ newTask' = newTask
          /\ isCreating' = isCreating ]_vars

C2_Witness ==
    /\ toasts = << ErrorToast("api_key_required") >>
    /\ showSettings
    /\ ~BlankText(newTask.prompt)
    /\ ~apiKeyConfigured
    /\ ~isCreating

\* the defaults of the draft
IsDefaultDraft(d) ==
    /\ d.ratio = Str(<< "1", "6", ":", "9" >>)
    /\ d.duration = Num(5)
    /\ d.resolution = Str(<< "7", "2", "0", "p" >>)
    /\ d.seed = Null
    /\ d.camera_fixed = FALSE
    /\ d.prompt = << >>

\* C5: the step that receives the response of a successful POST /api/tasks
\* leaves the draft at its defaults and issues the loadTasks of createTask;
\* the success or failure of that loadTasks does not touch the draft.
C5_DraftResetOnPosted ==
    [][ \A i \in Slots :
          /\ createTaskPosted(i) =>
               /\ IsDefaultDraft(newTask')
               /\ Cardinality(Issued(GetTasks, "createTask")') =
                    Cardinality(Issued(GetTasks, "createTask")) + 1
          /\ ((loadTasksResolved(i) \/ loadTasksRejected(i))
                /\ net[i].origin = "createTask") => newTask' = newTask ]_vars

C5_Witness ==
    /\ IsDefaultDraft(newTask)
    /\ Issued(GetTasks, "createTask") # { }
    /\ isCreating
    /\ server # << >>

C7_DeleteNeedsConfirmation ==
    [][ /\ \A id \in TaskIds :
             deleteTask(id, FALSE) =>
               /\ net' = net
               /\ toasts' = << >>
               /\ tasks' = tasks
        /\ Count(net', DeleteTasks) > Count(net, DeleteTasks) =>
             /\ dialog' = "yes"
             /\ \E id \in TaskIds : deleteTask(id, TRUE) ]_vars

C7_Witness ==
    /\ dialog = "no"
    /\ phase = "mounted"
    /\ tasks # << >>
    /\ Count(net, DeleteTasks) = 0
    /\ Len(net) < MaxInFlight

\* C8: mounting issues one loadTasks and arms the timer, every tick of the
\* timer issues one loadTasks, and once beforeUnmount has run the timer is
\* cancelled: no tick happens in an unmounted view.
C8_PollingLifecycle ==
    [][ /\ mounted =>
             /\ Cardinality(Issued(GetTasks, "mounted")') =
                  Cardinality(Issued(GetTasks, "mounted")) + 1
             /\ Count(net', GetTasks) = Count(net, GetTasks) + 1
             /\ polling' \in intervals'
        /\ pollTick =>
             /\ phase = "mounted"
             /\ Count(net', GetTasks) = Count(net, GetTasks) + 1
        /\ Cardinality(Issued(GetTasks, "poll")') >
             Cardinality(Issued(GetTasks, "poll")) => pollTick
        /\ phase' = "unmounted" => polling' \notin intervals' ]_vars

C8_Witness ==
    /\ phase = "unmounted"
    /\ polling = IntervalHandle
    /\ intervals = { }
    /\ Len(net) < MaxInFlight

\* C9: saveSettings with an empty or white-space API key issues no request,
\* shows the validation message and leaves apiKey, apiKeyConfigured and
\* showSettings as they were.
C9_BlankKeyBlocked ==
    [][ (saveSettings /\ BlankText(apiKey)) =>
          /\ net' = net
          /\ toasts' = << ErrorToast("api_key_input_required") >>
          /\ apiKey' = apiKey
          /\ apiKeyConfigured' = apiKeyConfigured
          /\ showSettings' = showSettings ]_vars

C9_Witness ==
    /\ toasts = << ErrorToast("api_key_input_required") >>
    /\ apiKey = KeyBlank
    /\ showSettings

\* C10: a failed loadTasks leaves the timer armed: in a mounted view the timer
\* is armed in every state, a tick is possible whenever a request can be
\* issued, and a poll that succeeds afterwards replaces the cache.
C10_FailureKeepsPolling ==
    /\ [](phase = "mounted" =>
            /\ polling \in intervals
            /\ (Len(net) < MaxInFlight => ENABLED pollTick))
    /\ [][ \A i \in Slots :
             /\ loadTasksRejected(i) =>
                  /\ intervals' = intervals
                  /\ polling' = polling
                  /\ phase' = phase
             /\ (loadTasksResolved(i) /\ net[i].origin = "poll") =>
                  tasks' = (IF net[i].data.hasTasks THEN net[i].data.tasks ELSE << >>)
       ]_vars

C10_Witness ==
    /\ phase = "mounted"
    /\ toasts = << ErrorToast("load_failed") >>
    /\ polling \in intervals
    /\ Issued(GetTasks, "poll") # { }
    /\ Issued(GetTasks, "mounted") = { }
    /\ Len(net) = 1

Terminal == { "completed", "failed", "cancelled" }

\* C11: whichever loadTasks request resolves, older or newer, the cache
\* becomes the complete list of that response (empty when the response has no
\* list), and nothing else changes the cache: the cache is always the list of
\* the response that resolved last, never a merge.
C11_CacheIsLastResponse ==
    [][ /\ \A i \in Slots :
             loadTasksResolved(i) =>
               tasks' = (IF net[i].data.hasTasks THEN net[i].data.tasks ELSE << >>)
        /\ tasks' # tasks => \E i \in Slots : loadTasksResolved(i) ]_vars

\* the cache shows a task completed while an answer that was served when the
\* task was still pending is on its way
C11_Witness ==
    /\ tasks # << >>
    /\ tasks[1].status = "completed"
    /\ \E i \in 1..Len(net) :
         /\ net[i].op = GetTasks
         /\ net[i].st = "served"
         /\ net[i].data.tasks # << >>
         /\ net[i].data.tasks[1].id = tasks[1].id
         /\ net[i].data.tasks[1].status = "pending"

\* C12: once the cache shows a task in a terminal state, the cache never
\* shows that task as pending or processing again.
C12_StatusNeverRegresses ==
    [][ \A k \in 1..Len(tasks), m \in 1..Len(tasks') :
          (tasks[k].id = tasks'[m].id /\ tasks[k].status \in Terminal) =>
            tasks'[m].status \in Terminal ]_vars

\* the mutating request at position i was answered successfully and the step
\* replaces it by one loadTasks request of the same caller
RefreshFollows(op, origin, i) ==
    /\ net[i].op = op
    /\ net[i].origin = origin
    /\ net[i].st = "served"
    /\ net' = Append(Remove(net, i), Request(GetTasks, origin, NoBody))

\* C13: createTask and deleteTask issue their own loadTasks only in the step
\* in which the successful answer to their POST or DELETE arrives, and every
\* such answer is followed at once by exactly one refresh of that caller; a
\* failed request issues none.
C13_RefreshAfterMutation ==
    [][ /\ \A i \in Slots :
             /\ createTaskPosted(i) => RefreshFollows(PostTasks, "createTask", i)
             /\ deleteTaskDeleted(i) => RefreshFollows(DeleteTasks, "deleteTask", i)
             /\ (createTaskFailed(i) \/ deleteTaskFailed(i)) =>
                  Count(net', GetTasks) = Count(net, GetTasks)
        /\ Cardinality(Issued(GetTasks, "createTask")') >
             Cardinality(Issued(GetTasks, "createTask")) =>
               \E i \in 1..Len(net) : RefreshFollows(PostTasks, "createTask", i)
        /\ Cardinality(Issued(GetTasks, "deleteTask")') >
             Cardinality(Issued(GetTasks, "deleteTask")) =>
               \E i \in 1..Len(net) : RefreshFollows(DeleteTasks, "deleteTask", i) ]_vars

\* a task was created and deleted on the backend, and the refresh of
\* deleteTask is on its way
C13_Witness ==
    /\ Issued(GetTasks, "deleteTask") # {}
    /\ server = << >>
    /\ nextId > 1

HasErrorToast(ts) == \E k \in 1..Len(ts) : ts[k].kind = "error"

\* C14: every failed request of loadTasks, createTask, deleteTask,
\* checkSettings and saveSettings ends in a step that shows an error toast
\* and leaves the view mounted, so that every handler can be invoked again.
C14_EveryFailureToasted ==
    [][ \A i \in Slots :
          ( \/ loadTasksRejected(i)
            \/ createTaskFailed(i)
            \/ deleteTaskFailed(i)
            \/ checkSettingsRejected(i)
            \/ saveSettingsFailed(i) ) =>
              /\ HasErrorToast(toasts')
              /\ phase' = phase ]_vars

\* C16: apiKeyConfigured turns true only when a checkSettings answer reports
\* a configured key or when the POST of saveSettings succeeded; a successful
\* save clears apiKey and closes the panel; a failed save leaves apiKey,
\* apiKeyConfigured and showSettings as they were.
C16_KeyConfiguredOnlyBySettings ==
    [][ /\ (~apiKeyConfigured /\ apiKeyConfigured') =>
             \E i \in 1..Len(net) :
               /\ net[i].st = "served"
               /\ net' = Remove(net, i)
               /\ \/ net[i].op = GetSettings /\ net[i].data.api_key_configured
                  \/ net[i].op = PostSettings
        /\ \A i \in Slots :
             /\ saveSettingsSaved(i) =>
                  apiKey' = << >> /\ ~showSettings' /\ apiKeyConfigured'
             /\ saveSettingsReload(i) => apiKey' = << >> /\ ~showSettings'
             /\ saveSettingsFailed(i) =>
                  /\ apiKey' = apiKey
                  /\ apiKeyConfigured' = apiKeyConfigured
                  /\ showSettings' = showSettings ]_vars

\* the key was saved from the open panel state of a client that had none
C16_Witness ==
    /\ toasts = << SuccessToast("settings_saved") >>
    /\ apiKeyConfigured
    /\ apiKey = << >>
    /\ ~showSettings
    /\ serverKey

\* C18: whenever the timer of checkSettings opens the settings panel,
\* apiKeyConfigured is false.
C18_AutoOpenOnlyWithoutKey ==
    [][ openSettingsTimeout => ~apiKeyConfigured ]_vars

\* createTask passed validation and issued its POST in this step
Submitted == createTask /\ Count(net', PostTasks) > Count(net, PostTasks)

\* the text from its first to its last character that is not white space
Stripped(s) ==
    LET inked == { k \in 1..Len(s) : s[k] \notin WhiteSpace }
    IN  IF inked = {} THEN << >>
        ELSE SubSeq(s, CHOOSE a \in inked : \A k \in inked : a <= k,
                       CHOOSE b \in inked : \A k \in inked : k <= b)

\* C15 as stated: the prompt sent by createTask is the raw prompt of the draft,
\* one space, and the string buildParameterString returns for the draft.
C15_PromptRawPlusParams ==
    [][ Submitted =>
          net'[Len(net')].body.prompt =
            newTask.prompt \o << " " >> \o buildParameterString(newTask) ]_vars

\* C15 amended: the prompt sent by createTask is the prompt of the draft
\* without its leading and trailing white space, one space, and the string
\* buildParameterString returns for the draft at submission.
C15_PromptTrimmedPlusParams ==
    [][ Submitted =>
          /\ net'[Len(net')].op = PostTasks
          /\ net'[Len(net')].body.prompt =
               Stripped(newTask.prompt) \o << " " >> \o buildParameterString(newTask) ]_vars

\* the draft " cat" with portrait parameters was submitted
C15_Witness ==
    /\ newTask = DraftPortrait
    /\ \E i \in 1..Len(net) :
         /\ net[i].op = PostTasks
         /\ net[i].body.prompt =
              << "c", "a", "t" >> \o << " " >> \o
              Join(<< << "-", "-", "r", "t" >>, Ratio916,
                      << "-", "-", "d", "u", "r" >>, << "3" >>,
                      << "-", "-", "f", "p", "s" >>, << "2", "4" >>,
                      << "-", "-", "r", "s" >>, Res1080p,
                      << "-", "-", "s", "e", "e", "d" >>, << "0" >>,
                      << "-", "-", "c", "f" >>, << "t", "r", "u", "e" >> >>,
                   << " " >>)

\* a createTask invocation is past validation and has not finished: its POST
\* or its closing loadTasks is pending
CreateInProgress ==
    \E i \in 1..Len(net) :
      \/ net[i].op = PostTasks
      \/ net[i].op = GetTasks /\ net[i].origin = "createTask"

\* C19: isCreating is true exactly while at least one createTask invocation
\* has passed validation and has not finished, also when invocations overlap.
C19_IsCreatingWhileInProgress == isCreating <=> CreateInProgress

\* C20: the step that handles a failed POST of createTask leaves every field
\* of the draft and of the image inputs as it was, issues no loadTasks and no
\* further POST, and shows the error toast only.
C20_FailedCreateKeepsDraft ==
    [][ \A i \in Slots :
          createTaskFailed(i) =>
            /\ newTask' = newTask
            /\ imageInputModes' = imageInputModes
            /\ imagePreviews' = imagePreviews
            /\ refImageInputModes' = refImageInputModes
            /\ refImagePreviews' = refImagePreviews
            /\ net' = Remove(net, i)
            /\ Count(net', GetTasks) = Count(net, GetTasks)
            /\ Count(net', PostTasks) = Count(net, PostTasks) - 1
            /\ toasts' = << ErrorToast("create_failed") >>
            /\ \A k \in 1..Len(toasts') : toasts'[k].kind # "success" ]_vars

\* the portrait draft was submitted and its POST failed: the draft is still
\* there, nothing of createTask is pending
C20_Witness ==
    /\ toasts = << ErrorToast("create_failed") >>
    /\ newTask = DraftPortrait
    /\ ~CreateInProgress
    /\ ~isCreating

(***************************************************************************)
(* SpecImages: createTask of the rich variant on drafts with every image   *)
(* mode, first and last image set, emptied or never set, and one to four   *)
(* reference images with or without a url.                                 *)
(***************************************************************************)
MaxReferenceImages == 4
ImageModes == { "none", "first_frame", "first_last_frame", "reference" }
UrlA == << "a" >>
UrlB == << "b" >>
FirstImageInputs == { Null, Str(<< >>), Str(UrlA) }
LastImageInputs == { Null, Str(<< >>), Str(UrlB) }
RefUrlInputs == { Null, Str(UrlA), Str(UrlB) }
ReferenceInputs ==
    UNION { [ 1..n -> { [url |-> u] : u \in RefUrlInputs } ] :
              n \in 1..MaxReferenceImages }

ImageDrafts ==
    { [ DataNewTask EXCEPT !.prompt = PromptCat,
                           !.imageMode = mode,
                           !.images = << first, last >>,
                           !.referenceImages = refs ] :
        mode \in ImageModes, first \in FirstImageInputs,
        last \in LastImageInputs, refs \in ReferenceInputs }

InitImages ==
    /\ variant = "rich"
    /\ phase = "mounted"
    /\ tasks = << >>
    /\ newTask \in ImageDrafts
    /\ imageInputModes = DataImageInputModes
    /\ imagePreviews = DataImagePreviews
    /\ refImageInputModes = [ k \in 1..Len(newTask.referenceImages) |-> "url" ]
    /\ refImagePreviews = [ k \in 1..Len(newTask.referenceImages) |-> Null ]
    /\ showSettings = FALSE
    /\ apiKey = << >>
    /\ apiKeyConfigured = TRUE
    /\ polling = IntervalHandle
    /\ isCreating = FALSE
    /\ intervals = { IntervalHandle }
    /\ settingsTimeout = FALSE
    /\ toasts = << >>
    /\ dialog = "none"
    /\ net = << >>
    /\ server = << >>
    /\ serverKey = TRUE
    /\ nextId = 1
    /\ paramString = NoResult

NextImages == createTask
SpecImages == InitImages /\ [][NextImages]_vars

\* the positions of the reference images that have a url
RefKept(d) ==
    { j \in 1..Len(d.referenceImages) : Truthy(d.referenceImages[j].url) }

\* what the claim says the body b carries for the draft d
ImagesAsClaimed(d, b) ==
    /\ b.hasImages <=> b.images # << >>
    /\ d.imageMode = "none" => ~b.hasImages
    /\ d.imageMode = "first_frame" =>
         b.images = IF Truthy(d.images[1])
                    THEN << [url |-> d.images[1], role |-> "first_frame"] >>
                    ELSE << >>
    /\ d.imageMode = "first_last_frame" =>
         /\ Len(b.images) = Cardinality({ k \in 1..2 : Truthy(d.images[k]) })
         /\ Truthy(d.images[1]) =>
              b.images[1] = [url |-> d.images[1], role |-> "first_frame"]
         /\ Truthy(d.images[2]) =>
              b.images[Len(b.images)] = [url |-> d.images[2], role |-> "last_frame"]
    /\ d.imageMode = "reference" =>
         /\ Len(b.images) = Cardinality(RefKept(d))
         /\ \A j \in RefKept(d) :
              b.images[Cardinality({ h \in RefKept(d) : h <= j })] =
                [url |-> d.referenceImages[j].url, role |-> "reference_image"]

\* C17: in the rich variant the images of the POST body follow imageMode:
\* none sends no images, first_frame at most images[0] as first_frame,
\* first_last_frame the set ones of images[0] as first_frame then images[1]
\* as last_frame, reference the reference images that have a url, in order,
\* as reference_image; the field is absent when there is no image to send.
C17_ImagesFollowMode ==
    \A i \in 1..Len(net) :
      (variant = "rich" /\ net[i].op = PostTasks) =>
        ImagesAsClaimed(newTask, net[i].body)

\* first_frame with both images set sends the first one only
C17_Witness ==
    /\ variant = "rich"
    /\ newTask.imageMode = "first_frame"
    /\ Truthy(newTask.images[1])
    /\ Truthy(newTask.images[2])
    /\ \E i \in 1..Len(net) :
         /\ net[i].op = PostTasks
         /\ net[i].body.hasImages
         /\ Len(net[i].body.images) = 1

(***************************************************************************)
(* Reference images: addReferenceImage, removeReferenceImage and           *)
(* handleRefImageUpload.  The handlers take a JavaScript index, counted    *)
(* from 0.  A FileReader read in progress is kept in net like a request,   *)
(* with the index in body.id; the Task Store never serves it.              *)
(***************************************************************************)
ReadFile == "FileReader.readAsDataURL"

\* array[index] = value: an index past the end extends the array
SetAt(seq, index, value) ==
    IF index < Len(seq)
    THEN [ seq EXCEPT ![index + 1] = value ]
    ELSE seq \o [ k \in 1..(index - Len(seq)) |-> Null ] \o << value >>

\* array.splice(index, 1)
Splice(seq, index) ==
    IF index < Len(seq) THEN Remove(seq, index + 1) ELSE seq

RefIndexes == 0..(MaxReferenceImages - 1)
FileContents == { Str(UrlA), Str(UrlB) }

\* this.newTask.referenceImages.length < 4
CanAddReferenceImageUpToFive(refs) == Len(refs) <= MaxReferenceImages
CanAddReferenceImage(refs) == Len(refs) < MaxReferenceImages

addReferenceImage ==
    /\ phase = "mounted"
    /\ IF CanAddReferenceImage(newTask.referenceImages)
       THEN /\ newTask' = [ newTask EXCEPT
                              !.referenceImages = Append(@, [url |-> Null]) ]
            /\ refImageInputModes' = Append(refImageInputModes, "url")
            /\ refImagePreviews' = Append(refImagePreviews, Null)
       ELSE UNCHANGED << newTask, refImageInputModes, refImagePreviews >>
    /\ toasts' = << >>
    /\ dialog' = "none"
    /\ UNCHANGED << variant, phase, tasks, imageInputModes, imagePreviews,
                    showSettings, apiKey, apiKeyConfigured, polling, isCreating,
                    intervals, settingsTimeout, net, backendVars, paramString >>

removeReferenceImage(index) ==
    /\ phase = "mounted"
    /\ IF Len(newTask.referenceImages) > 1
       THEN /\ newTask' = [ newTask EXCEPT !.referenceImages = Splice(@, index) ]
            /\ refImageInputModes' = Splice(refImageInputModes, index)
            /\ refImagePreviews' = Splice(refImagePreviews, index)
       ELSE UNCHANGED << newTask, refImageInputModes, refImagePreviews >>
    /\ toasts' = << >>
    /\ dialog' = "none"
    /\ UNCHANGED << variant, phase, tasks, imageInputModes, imagePreviews,
                    showSettings, apiKey, apiKeyConfigured, polling, isCreating,
                    intervals, settingsTimeout, net, backendVars, paramString >>

\* referenceImages[index].url = value throws a TypeError when there is no
\* entry at index, before the assignment to refImagePreviews is reached
HasEntry(refs, index) == index < Len(refs)

\* handleRefImageUpload up to its await: without a file the entry is cleared
\* at once, with a file the read starts
handleRefImageUpload(index, hasFile) ==
    /\ phase = "mounted"
    /\ IF hasFile
       THEN /\ Len(net) < MaxInFlight
            /\ net' = Append(net, Request(ReadFile, "handleRefImageUpload",
                                          [ NoBody EXCEPT !.id = index ]))
            /\ UNCHANGED << newTask, refImagePreviews >>
       ELSE /\ net' = net
            /\ IF HasEntry(newTask.referenceImages, index)
               THEN /\ newTask' = [ newTask EXCEPT
                                      !.referenceImages[index + 1].url = Null ]
                    /\ refImagePreviews' = SetAt(refImagePreviews, index, Null)
               ELSE UNCHANGED << newTask, refImagePreviews >>
    /\ toasts' = << >>
    /\ dialog' = "none"
    /\ UNCHANGED << variant, phase, tasks, imageInputModes, imagePreviews,
                    refImageInputModes, showSettings, apiKey, apiKeyConfigured,
                    polling, isCreating, intervals, settingsTimeout,
                    backendVars, paramString >>

\* fileToBase64 resolved: the try block after the await
handleRefImageUploadLoaded(i, base64) ==
    /\ i \in 1..Len(net)
    /\ net[i].op = ReadFile
    /\ IF HasEntry(newTask.referenceImages, net[i].body.id)
       THEN /\ newTask' = [ newTask EXCEPT
                              !.referenceImages[net[i].body.id + 1].url = base64 ]
            /\ refImagePreviews' = SetAt(refImagePreviews, net[i].body.id, base64)
            /\ toasts' = << >>
       ELSE /\ UNCHANGED << newTask, refImagePreviews >>
            /\ toasts' = showError(<< >>, "image_failed")
    /\ dialog' = "none"
    /\ net' = Remove(net, i)
    /\ UNCHANGED << variant, phase, tasks, imageInputModes, imagePreviews,
                    refImageInputModes, showSettings, apiKey, apiKeyConfigured,
                    polling, isCreating, intervals, settingsTimeout,
                    backendVars, paramString >>

\* fileToBase64 rejected: catch
handleRefImageUploadFailed(i) ==
    /\ i \in 1..Len(net)
    /\ net[i].op = ReadFile
    /\ toasts' = showError(<< >>, "image_failed")
    /\ dialog' = "none"
    /\ net' = Remove(net, i)
    /\ UNCHANGED << variant, phase, clientVars, intervals, settingsTimeout,
                    backendVars, paramString >>

NextReferenceImages ==
    \/ addReferenceImage
    \/ \E index \in RefIndexes : removeReferenceImage(index)
    \/ \E index \in RefIndexes, hasFile \in BOOLEAN :
         handleRefImageUpload(index, hasFile)
    \/ \E i \in Slots, base64 \in FileContents : handleRefImageUploadLoaded(i, base64)
    \/ \E i \in Slots : handleRefImageUploadFailed(i)

(***************************************************************************)
(* SpecRefImages: the rich variant, mounted with a key and a prompt; the   *)
(* user edits the reference images and submits the form.                   *)
(***************************************************************************)
InitRefImages ==
    /\ variant = "rich"
    /\ phase = "mounted"
    /\ tasks = << >>
    /\ newTask = [ DataNewTask EXCEPT !.prompt = PromptCat,
                                      !.imageMode = "reference" ]
    /\ imageInputModes = DataImageInputModes
    /\ imagePreviews = DataImagePreviews
    /\ refImageInputModes = DataRefImageInputModes
    /\ refImagePreviews = DataRefImagePreviews
    /\ showSettings = FALSE
    /\ apiKey = << >>
    /\ apiKeyConfigured = TRUE
    /\ polling = IntervalHandle
    /\ isCreating = FALSE
    /\ intervals = { IntervalHandle }
    /\ settingsTimeout = FALSE
    /\ toasts = << >>
    /\ dialog = "none"
    /\ net = << >>
    /\ server = << >>
    /\ serverKey = TRUE
    /\ nextId = 1
    /\ paramString = NoResult

NextRefImages ==
    \/ NextReferenceImages
    \/ createTask
    \/ \E i \in Slots : createTaskPosted(i)
    \/ \E i \in Slots : createTaskFailed(i)
    \/ \E i \in Slots : loadTasksResolved(i)
    \/ \E i \in Slots : loadTasksRejected(i)
    \/ \E i \in Slots : serve(i)
SpecRefImages == InitRefImages /\ [][NextRefImages]_vars

\* C21: in the rich variant, whatever addReferenceImage, removeReferenceImage,
\* handleRefImageUpload and createTask have done, referenceImages,
\* refImageInputModes and refImagePreviews have the same length, from 1 to 4.
C21_RefListsAligned ==
    variant = "rich" =>
      /\ Len(newTask.referenceImages) = Len(refImageInputModes)
      /\ Len(newTask.referenceImages) = Len(refImagePreviews)
      /\ Len(newTask.referenceImages) \in 1..4

\* a task was created, which reset the lists to one entry, while a file read
\* for a later entry is still in progress
C21_Witness ==
    /\ nextId > 1
    /\ Len(newTask.referenceImages) = 1
    /\ \E i \in 1..Len(net) :
         /\ net[i].op = ReadFile
         /\ net[i].body.id >= 1

====
